---- MODULE Spec2Model ----
(***************************************************************************)
(* Incremental randomized 3D convex hull on a half-edge mesh (DCEL) with   *)
(* a bipartite conflict graph: cg3::convexHull and its internal helpers.   *)
(*                                                                         *)
(* Coordinates are integers.  Pointd holds doubles; every determinant the  *)
(* model evaluates is a sum of products of small integers, which double    *)
(* arithmetic computes exactly, so the integer determinant is the value    *)
(* the code computes, and "> epsilon" on it is "> 0".                      *)
(*                                                                         *)
(* Pointers to Dcel vertices, half-edges and faces are positive            *)
(* identifiers handed out by per-kind counters and never reused; NULL is   *)
(* the null pointer.                                                       *)
(***************************************************************************)
EXTENDS Integers, Sequences, FiniteSets, TLC

NULL == 0

-----------------------------------------------------------------------------
(* Bounds and inputs *)

\* Largest number of points of an input drawn from Universe.
MaxPoints == 5

\* Number of shuffle outcomes explored for an input longer than MaxPoints.
MaxLongShuffles == 1

\* Longest sequence of U-nodes of a conflict graph driven on its own.
MaxGraphNodes == 3

Pt(x, y, z) == <<x, y, z>>

\* The points inputs are drawn from: the tetrahedron of the concrete
\* scenario scaled by 5, its interior point (0.2,0.2,0.2) scaled by 5, and
\* an outer point; no four of them are coplanar.
Universe ==
    << Pt(0,0,0), Pt(5,0,0), Pt(0,5,0), Pt(0,0,5), Pt(1,1,1), Pt(4,3,6) >>

Tetra == << Pt(0,0,0), Pt(5,0,0), Pt(0,5,0), Pt(0,0,5) >>

TetraInterior == << Pt(0,0,0), Pt(5,0,0), Pt(0,5,0), Pt(0,0,5), Pt(1,1,1) >>

\* The tetrahedron and a fifth point in the plane z = 0 of one of its faces.
TetraCoplanar == << Pt(0,0,0), Pt(5,0,0), Pt(0,5,0), Pt(0,0,5), Pt(5,5,0) >>

\* Four coplanar points, and four coincident points.
Square == << Pt(0,0,5), Pt(5,0,5), Pt(0,5,5), Pt(5,5,5) >>

Coincident == << Pt(0,0,0), Pt(0,0,0), Pt(0,0,0), Pt(0,0,0) >>

\* Six points, no four coplanar, two of them inside the hull of the others.
Hexa ==
    << Pt(1,1,1), Pt(4,3,6), Pt(2,3,1), Pt(9,0,0), Pt(0,0,9), Pt(0,0,0) >>

Cube ==
    << Pt(0,0,0), Pt(1,0,0), Pt(0,1,0), Pt(1,1,0),
       Pt(0,0,1), Pt(1,0,1), Pt(0,1,1), Pt(1,1,1) >>

-----------------------------------------------------------------------------
(* Sequence helpers *)

Range(s) == { s[i] : i \in DOMAIN s }

RECURSIVE SeqOfSet(_)
SeqOfSet(S) ==
    IF S = {} THEN << >>
    ELSE LET x == CHOOSE y \in S : TRUE IN << x >> \o SeqOfSet(S \ {x})

\* All orders of the sequence s.
RECURSIVE Orders(_)
Orders(s) ==
    IF Len(s) = 0 THEN { << >> }
    ELSE UNION { { << s[i] >> \o t :
                     t \in Orders([ j \in 1..(Len(s) - 1) |->
                                            IF j < i THEN s[j] ELSE s[j + 1] ]) } :
                 i \in 1..Len(s) }

\* std::swap(s[i], s[j]) on a 0-based vector held as a 1-based sequence.
Swap(s, i, j) ==
    [ k \in DOMAIN s |->
        IF k = i + 1 THEN s[j + 1] ELSE IF k = j + 1 THEN s[i + 1] ELSE s[k] ]

-----------------------------------------------------------------------------
(* Orientation predicate *)

Det3(a, b, c) ==
      a[1] * (b[2] * c[3] - b[3] * c[2])
    - a[2] * (b[1] * c[3] - b[3] * c[1])
    + a[3] * (b[1] * c[2] - b[2] * c[1])

\* Determinant of the 4x4 matrix of rows [x y z 1], expanded along the
\* column of ones.
complanar(p0, p1, p2, p3) ==
    (0 - Det3(p1, p2, p3)) + Det3(p0, p2, p3) - Det3(p0, p1, p3) + Det3(p0, p1, p2)

-----------------------------------------------------------------------------
(* Half-edge mesh (Dcel).  A mesh is a record                              *)
(*   vertices  : id -> [coordinate, incidentHalfEdge]                      *)
(*   halfEdges : id -> [fromVertex, toVertex, twin, next, prev, face]      *)
(*   faces     : id -> [outerHalfEdge]                                     *)
(*   nV, nH, nF: the number of vertices, half-edges, faces ever allocated  *)

EmptyDcel ==
    [ vertices |-> << >>, halfEdges |-> << >>, faces |-> << >>,
      nV |-> 0, nH |-> 0, nF |-> 0 ]

Vtx(c, e) == [ coordinate |-> c, incidentHalfEdge |-> e ]

HE(fv, tv, tw, nx, pv, f) ==
    [ fromVertex |-> fv, toVertex |-> tv, twin |-> tw,
      next |-> nx, prev |-> pv, face |-> f ]

Fc(e) == [ outerHalfEdge |-> e ]

Remove(fn, S) == [ x \in (DOMAIN fn) \ S |-> fn[x] ]

LiveV(m, v) == v \in DOMAIN m.vertices
LiveH(m, e) == e \in DOMAIN m.halfEdges
LiveF(m, f) == f \in DOMAIN m.faces

\* Face::incidentHalfEdgeBegin .. incidentHalfEdgeEnd: the boundary cycle of
\* f from its outer half-edge along next, for a triangular face.
IncidentHalfEdges(m, f) ==
    LET e1 == m.faces[f].outerHalfEdge
        e2 == m.halfEdges[e1].next
        e3 == m.halfEdges[e2].next
    IN  << e1, e2, e3 >>

\* Face::incidentVertexBegin: the vertices met along the boundary cycle.
IncidentVertices(m, f) ==
    LET es == IncidentHalfEdges(m, f)
    IN  [ i \in 1..3 |-> m.halfEdges[es[i]].fromVertex ]

\* Every pointer see(f, .) or the boundary iteration of f follows is live.
FaceReadable(m, f) ==
    /\ LiveF(m, f)
    /\ LET e1 == m.faces[f].outerHalfEdge IN
       /\ LiveH(m, e1)
       /\ LET e2 == m.halfEdges[e1].next IN
          /\ LiveH(m, e2)
          /\ LET e3 == m.halfEdges[e2].next IN
             /\ LiveH(m, e3)
             /\ \A e \in {e1, e2, e3} : LiveV(m, m.halfEdges[e].fromVertex)

\* Value of the determinant see(f, p) tests.
seeDeterminant(m, f, p) ==
    LET vs == IncidentVertices(m, f)
    IN  complanar(m.vertices[vs[1]].coordinate, m.vertices[vs[2]].coordinate,
                  m.vertices[vs[3]].coordinate, p)

\* A visibility test that wants the determinant below zero.
seeBelowZero(m, f, p) == seeDeterminant(m, f, p) < 0

\* internal::see: determinant > epsilon returns false, anything else true.
see(m, f, p) == ~(seeDeterminant(m, f, p) > 0)

\* internal::insertTet.  Allocation order of the half-edges:
\* e01 e12 e20 e10 e03 e31 e23 e30 e02 e21 e13 e32.
insertTet(dcel, p0, p1, p2, p3) ==
    LET v0 == dcel.nV + 1   v1 == dcel.nV + 2
        v2 == dcel.nV + 3   v3 == dcel.nV + 4
        h  == dcel.nH
        e01 == h + 1   e12 == h + 2    e20 == h + 3
        e10 == h + 4   e03 == h + 5    e31 == h + 6
        e23 == h + 7   e30 == h + 8    e02 == h + 9
        e21 == h + 10  e13 == h + 11   e32 == h + 12
        f0 == dcel.nF + 1   f1 == dcel.nF + 2
        f2 == dcel.nF + 3   f3 == dcel.nF + 4
    IN  [ vertices |->
            (v0 :> Vtx(p0, e01)) @@ (v1 :> Vtx(p1, e10)) @@
            (v2 :> Vtx(p2, e23)) @@ (v3 :> Vtx(p3, e32)) @@ dcel.vertices,
          halfEdges |->
            (e01 :> HE(v0, v1, e10, e12, e20, f0)) @@
            (e12 :> HE(v1, v2, e21, e20, e01, f0)) @@
            (e20 :> HE(v2, v0, e02, e01, e12, f0)) @@
            (e10 :> HE(v1, v0, e01, e03, e31, f1)) @@
            (e03 :> HE(v0, v3, e30, e31, e10, f1)) @@
            (e31 :> HE(v3, v1, e13, e10, e03, f1)) @@
            (e23 :> HE(v2, v3, e32, e30, e02, f2)) @@
            (e30 :> HE(v3, v0, e03, e02, e23, f2)) @@
            (e02 :> HE(v0, v2, e20, e23, e30, f2)) @@
            (e21 :> HE(v2, v1, e12, e13, e32, f3)) @@
            (e13 :> HE(v1, v3, e31, e32, e21, f3)) @@
            (e32 :> HE(v3, v2, e23, e21, e13, f3)) @@ dcel.halfEdges,
          faces |->
            (f0 :> Fc(e01)) @@ (f1 :> Fc(e10)) @@
            (f2 :> Fc(e23)) @@ (f3 :> Fc(e21)) @@ dcel.faces,
          nV |-> dcel.nV + 4, nH |-> dcel.nH + 12, nF |-> dcel.nF + 4 ]

-----------------------------------------------------------------------------
(* Conflict graph (BipartiteGraph<Pointd, Dcel::Face*>).  A graph is       *)
(*   nodesU : the points given to addUNode, in insertion order             *)
(*   liveU  : the points whose U-node has not been deleted                 *)
(*   liveV  : the faces that have a V-node                                 *)
(*   arcs   : pairs <<point, face>>                                        *)

EmptyGraph == [ nodesU |-> << >>, liveU |-> {}, liveV |-> {}, arcs |-> {} ]

addVNode(g, f) == [ g EXCEPT !.liveV = @ \cup {f} ]

addUNode(g, p) ==
    [ g EXCEPT !.nodesU = Append(@, p), !.liveU = @ \cup {p} ]

\* An arc joins two live nodes; a request naming a missing node adds nothing.
addArc(g, p, f) ==
    IF p \in g.liveU /\ f \in g.liveV
    THEN [ g EXCEPT !.arcs = @ \cup { << p, f >> } ]
    ELSE g

\* A deletion that forgets the arcs of the node.
deleteUNodeKeepsArcs(g, p) == [ g EXCEPT !.liveU = @ \ {p} ]

deleteUNode(g, p) ==
    [ g EXCEPT !.liveU = @ \ {p}, !.arcs = { a \in @ : a[1] # p } ]

deleteVNode(g, f) ==
    [ g EXCEPT !.liveV = @ \ {f}, !.arcs = { a \in @ : a[2] # f } ]

sizeU(g) == Cardinality(g.liveU)

adjacentUNode(g, p) == { a[2] : a \in { b \in g.arcs : b[1] = p } }

adjacentVNode(g, f) == { a[1] : a \in { b \in g.arcs : b[2] = f } }

sizeAdjacencesUNode(g, p) == Cardinality(adjacentUNode(g, p))

-----------------------------------------------------------------------------
(* Horizon *)

twinFace(m, e) == m.halfEdges[m.halfEdges[e].twin].face

\* e0 can be read the way both loops of horizonEdgeList read it: e0, its
\* twin e1 and the face of e1 with its boundary are live.
WalkReadable(m, e0) ==
    /\ LiveH(m, e0)
    /\ LiveH(m, m.halfEdges[e0].twin)
    /\ FaceReadable(m, twinFace(m, e0))

\* Marks a read through a dangling pointer.
DANGLING == 0 - 1

\* Search loop body for one face f: the first incident half-edge of f whose
\* twin lies on a face next_point does not see, NULL when there is none,
\* DANGLING when the scan reads a deleted element before finding one.
RECURSIVE scanFace(_, _, _, _)
scanFace(m, es, i, next_point) ==
    IF i > 3 THEN NULL
    ELSE IF ~WalkReadable(m, es[i]) THEN DANGLING
    ELSE IF ~see(m, twinFace(m, es[i]), next_point) THEN es[i]
    ELSE scanFace(m, es, i + 1, next_point)

boundaryEdgeOf(m, f, next_point) ==
    IF ~FaceReadable(m, f) THEN DANGLING
    ELSE scanFace(m, IncidentHalfEdges(m, f), 1, next_point)

\* The do-while walk.  The walk's only state is e0, so more iterations than
\* there are half-edges without meeting first_boundary_edge mean it never
\* meets it: "diverged".
RECURSIVE horizonWalk(_, _, _, _, _, _, _)
horizonWalk(m, next_point, first_boundary_edge, e0, horizon, horizonVertex, fuel) ==
    IF ~WalkReadable(m, e0)
    THEN [ status |-> "ub", horizon |-> horizon, horizonVertex |-> horizonVertex ]
    ELSE IF fuel = 0
    THEN [ status |-> "diverged", horizon |-> horizon, horizonVertex |-> horizonVertex ]
    ELSE
      LET e1   == m.halfEdges[e0].twin
          sees == see(m, m.halfEdges[e1].face, next_point)
          h2   == IF ~sees THEN Append(horizon, e1) ELSE horizon
          hv2  == IF ~sees THEN horizonVertex \cup { m.halfEdges[e0].fromVertex }
                  ELSE horizonVertex
          nx   == IF ~sees THEN m.halfEdges[e0].next ELSE m.halfEdges[e1].next
      IN  IF nx = first_boundary_edge
          THEN [ status |-> "ok", horizon |-> h2, horizonVertex |-> hv2 ]
          ELSE horizonWalk(m, next_point, first_boundary_edge, nx, h2, hv2, fuel - 1)

\* The visible faces that end the search loop when they are reached.  The
\* loop visits visibleFaces in pointer order, which allocation decides, so
\* any of them can be the first one reached.
searchHits(m, visibleFaces, next_point) ==
    { f \in visibleFaces : boundaryEdgeOf(m, f, next_point) \notin {NULL, DANGLING} }

\* The search loop may read a deleted element before it finds a face.
searchDangles(m, visibleFaces, next_point) ==
    \E f \in visibleFaces : boundaryEdgeOf(m, f, next_point) = DANGLING

\* internal::horizonEdgeList, the search loop ending on face f.
horizonEdgeList(m, f, next_point) ==
    LET e0 == boundaryEdgeOf(m, f, next_point)
        e1 == m.halfEdges[e0].twin
    IN  horizonWalk(m, next_point, e0, m.halfEdges[e0].next,
                    << e1 >>, { m.halfEdges[e0].fromVertex },
                    Cardinality(DOMAIN m.halfEdges) + 1)

\* internal::calculateP.
calculateP(g, m, horizonEdges) ==
    [ i \in DOMAIN horizonEdges |->
        LET he0 == horizonEdges[i]
            he1 == m.halfEdges[he0].twin
            f0  == m.halfEdges[he0].face
            f1  == m.halfEdges[he1].face
        IN  adjacentVNode(g, f0) \cup adjacentVNode(g, f1) ]

-----------------------------------------------------------------------------
(* Deleting the visible faces *)

\* The first loop of deleteVisibleFaces over the faces fs (a sequence), st
\* being [status, m, g, garbage_vertex].
RECURSIVE deleteFacesLoop(_, _, _)
deleteFacesLoop(st, fs, horizonVertices) ==
    IF Len(fs) = 0 \/ st.status # "ok" THEN st
    ELSE
      LET m == st.m
          f == Head(fs)
      IN  IF ~FaceReadable(m, f)
          THEN [ st EXCEPT !.status = "ub" ]
          ELSE
            LET e1 == m.faces[f].outerHalfEdge
                e2 == m.halfEdges[e1].next
                e3 == m.halfEdges[e2].next
                v1 == m.halfEdges[e1].fromVertex
                v2 == m.halfEdges[e1].toVertex
                v3 == m.halfEdges[e2].toVertex
            IN  IF Cardinality({e1, e2, e3}) # 3
                THEN [ st EXCEPT !.status = "ub" ]
                ELSE deleteFacesLoop(
                       [ status  |-> "ok",
                         m       |-> [ m EXCEPT !.halfEdges = Remove(@, {e1, e2, e3}),
                                                !.faces = Remove(@, {f}) ],
                         g       |-> deleteVNode(st.g, f),
                         garbage |-> st.garbage \cup ({v1, v2, v3} \ horizonVertices) ],
                       Tail(fs), horizonVertices)

\* deleteVisibleFaces that does not spare the horizon vertices.
deleteVisibleFacesAndHorizon(ch, horizonVertices, visibleFaces, g) ==
    LET st == deleteFacesLoop([ status |-> "ok", m |-> ch, g |-> g, garbage |-> {} ],
                              SeqOfSet(visibleFaces), {})
    IN  IF st.status # "ok" THEN st
        ELSE IF ~(st.garbage \subseteq DOMAIN st.m.vertices)
        THEN [ st EXCEPT !.status = "ub" ]
        ELSE [ st EXCEPT !.m.vertices = Remove(@, st.garbage) ]

\* internal::deleteVisibleFaces: [status, m, g, garbage].
deleteVisibleFaces(ch, horizonVertices, visibleFaces, g) ==
    LET st == deleteFacesLoop([ status |-> "ok", m |-> ch, g |-> g, garbage |-> {} ],
                              SeqOfSet(visibleFaces), horizonVertices)
    IN  IF st.status # "ok" THEN st
        ELSE IF ~(st.garbage \subseteq DOMAIN st.m.vertices)
        THEN [ st EXCEPT !.status = "ub" ]
        ELSE [ st EXCEPT !.m.vertices = Remove(@, st.garbage) ]

-----------------------------------------------------------------------------
(* Inserting the new faces *)

\* The conflict arcs of the new face f: every point of Pi that sees f.
\* addArcs is the graph after the addArc calls; deadArc tells that one of
\* the calls named a point without a live U-node.
newFaceConflicts(m, f, Pi) == { q \in Pi : see(m, f, q) }

RECURSIVE addArcs(_, _, _)
addArcs(g, qs, f) ==
    IF qs = {} THEN g
    ELSE LET q == CHOOSE x \in qs : TRUE
         IN  addArcs(addArc(g, q, f), qs \ {q}, f)

\* A new triangle that leaves the incident half-edges of its vertices alone.
keepIncidentHalfEdges(vs, v1, e1, v2, e2, v3, e3, first) == vs

\* The setIncidentHalfEdge calls of a new triangle: v1 and v2 are anchored
\* on its e1 and e2, and the new vertex v3 on e3 of the first triangle.
setIncidentHalfEdges(vs, v1, e1, v2, e2, v3, e3, first) ==
    LET vs1 == [ vs EXCEPT ![v1].incidentHalfEdge = e1 ]
        vs2 == [ vs1 EXCEPT ![v2].incidentHalfEdge = e2 ]
    IN  IF first THEN [ vs2 EXCEPT ![v3].incidentHalfEdge = e3 ] ELSE vs2

\* One new triangle on horizon edge number i (1-based), st being
\* [status, m, g, e2, old_e3, deadArc]: the body of the first triangle for
\* i = 1 and the loop body for i > 1.
newFace(st, horizonEdges, i, v3, P) ==
    LET m == st.m
        externHalfEdge == horizonEdges[i]
    IN  IF ~LiveH(m, externHalfEdge) THEN [ st EXCEPT !.status = "ub" ]
        ELSE
          LET v2 == m.halfEdges[externHalfEdge].fromVertex
              v1 == m.halfEdges[externHalfEdge].toVertex
              old_e2 == st.e2
              e1 == m.nH + 1
              e2 == m.nH + 2
              e3 == m.nH + 3
              f  == m.nF + 1
          IN  IF ~LiveV(m, v1) \/ ~LiveV(m, v2) THEN [ st EXCEPT !.status = "ub" ]
              ELSE
                LET hs0 == (e1 :> HE(v1, v2, externHalfEdge, e2, e3, f)) @@
                           (e2 :> HE(v2, v3, NULL, e3, e1, f)) @@
                           (e3 :> HE(v3, v1, IF i = 1 THEN NULL ELSE old_e2, e1, e2, f)) @@
                           m.halfEdges
                    hs1 == [ hs0 EXCEPT ![externHalfEdge].twin = e1 ]
                    hs2 == IF i = 1 THEN hs1 ELSE [ hs1 EXCEPT ![old_e2].twin = e3 ]
                    vs3 == setIncidentHalfEdges(m.vertices, v1, e1, v2, e2, v3, e3, i = 1)
                    m2  == [ vertices |-> vs3, halfEdges |-> hs2,
                             faces |-> (f :> Fc(e1)) @@ m.faces,
                             nV |-> m.nV, nH |-> m.nH + 3, nF |-> m.nF + 1 ]
                    g1  == addVNode(st.g, f)
                    qs  == newFaceConflicts(m2, f, P[i])
                IN  [ status  |-> "ok",
                      m       |-> m2,
                      g       |-> addArcs(g1, qs, f),
                      e2      |-> e2,
                      old_e3  |-> IF i = 1 THEN e3 ELSE st.old_e3,
                      deadArc |-> st.deadArc \/ ~(qs \subseteq g1.liveU) ]

RECURSIVE newFacesLoop(_, _, _, _, _)
newFacesLoop(st, horizonEdges, i, v3, P) ==
    IF i > Len(horizonEdges) \/ st.status # "ok" THEN st
    ELSE newFacesLoop(newFace(st, horizonEdges, i, v3, P), horizonEdges, i + 1, v3, P)

\* insertNewFaces without the twin link between the last and the first
\* new face.
insertNewFacesOpenFan(ch, horizonEdges, p, g, P) ==
    LET v3 == ch.nV + 1
        m0 == [ ch EXCEPT !.vertices = (v3 :> Vtx(p, NULL)) @@ @, !.nV = v3 ]
    IN  newFacesLoop([ status |-> "ok", m |-> m0, g |-> g, e2 |-> NULL,
                       old_e3 |-> NULL, deadArc |-> FALSE ],
                     horizonEdges, 1, v3, P)

\* internal::insertNewFaces: [status, m, g, e2, old_e3, deadArc].
insertNewFaces(ch, horizonEdges, p, g, P) ==
    LET v3 == ch.nV + 1
        m0 == [ ch EXCEPT !.vertices = (v3 :> Vtx(p, NULL)) @@ @, !.nV = v3 ]
        st == newFacesLoop([ status |-> "ok", m |-> m0, g |-> g, e2 |-> NULL,
                             old_e3 |-> NULL, deadArc |-> FALSE ],
                           horizonEdges, 1, v3, P)
    IN  IF st.status # "ok" THEN st
        ELSE [ st EXCEPT !.m.halfEdges[st.e2].twin = st.old_e3,
                         !.m.halfEdges[st.old_e3].twin = st.e2 ]

-----------------------------------------------------------------------------
(* Inputs *)

\* The subsequences of s with at most n elements, in the order of s.
RECURSIVE SubSeqs(_, _)
SubSeqs(s, n) ==
    IF Len(s) = 0 \/ n = 0 THEN { << >> }
    ELSE LET rest == Tail(s)
         IN  SubSeqs(rest, n) \cup { << Head(s) >> \o t : t \in SubSeqs(rest, n - 1) }

\* Vectors a caller may pass: every choice of at most MaxPoints points of
\* Universe, and the degenerate vectors.
Inputs ==
    SubSeqs(Universe, MaxPoints) \cup { TetraCoplanar, Square, Coincident }

\* The longer vectors, with the small ones that exercise the remaining
\* branches.
LongInputs == { Cube, Hexa, TetraInterior, Coincident, << >> }

\* A mesh of isolated vertices at the points of ps, in that order.
pointCloud(ps) ==
    [ EmptyDcel EXCEPT !.vertices = [ i \in DOMAIN ps |-> Vtx(ps[i], NULL) ],
                       !.nV = Len(ps) ]

\* Dcel::vertexIterator: the live vertices by increasing id, from id i on.
RECURSIVE vertexIteratorFrom(_, _)
vertexIteratorFrom(m, i) ==
    IF i > m.nV THEN << >>
    ELSE (IF LiveV(m, i) THEN << i >> ELSE << >>) \o vertexIteratorFrom(m, i + 1)

\* The vector convexHull(const Dcel&) builds from its argument.
vertexCoordinatesOf(m) ==
    LET vs == vertexIteratorFrom(m, 1)
    IN  [ i \in DOMAIN vs |-> m.vertices[vs[i]].coordinate ]

\* Meshes a caller may pass: a tetrahedron, point clouds, a cloud one of
\* whose vertices has been deleted, and the empty mesh.
InputMeshes ==
    { insertTet(EmptyDcel, Tetra[1], Tetra[2], Tetra[3], Tetra[4]),
      pointCloud(TetraInterior),
      [ pointCloud(Universe) EXCEPT !.vertices = Remove(@, {2}) ],
      EmptyDcel }

LongInputMeshes == { pointCloud(Hexa), pointCloud(Square) }

Rotate(s, k) == [ i \in DOMAIN s |-> s[((i - 1 + k) % Len(s)) + 1] ]

\* Outcomes of std::random_shuffle: every order of a vector shorter than
\* Universe, and MaxLongShuffles of the orders of a longer one.
ShuffleOutcomes(s) ==
    IF Len(s) < Len(Universe) THEN Orders(s)
    ELSE { Rotate(s, k) : k \in 0..(MaxLongShuffles - 1) }

-----------------------------------------------------------------------------
(* State *)

VARIABLES
    pc,           \* position in convexHull(std::vector<Pointd>)
    input,        \* the vector the caller passed
    points,       \* the local copy: shuffled, then seed points swapped to the front
    determinant,  \* the determinant of the last seed draw
    drawn,        \* a seed draw has been evaluated
    convexHull,   \* the Dcel under construction
    cg,           \* the conflict graph
    it,           \* position of the uNodeIterator of the running pass in cg.nodesU
    iterations,   \* completed passes of the while loop
    inserted,     \* points inserted as hull vertices by the loop, in order
    discarded,    \* points whose U-node was deleted with zero arcs, in order
    deadArc,      \* an addArc call named a point without a live U-node
    entry,        \* the overload the caller entered: "points" or "mesh"
    inputDcel,    \* the argument of convexHull(const Dcel&)
    updates,      \* the update calls made on convexHull, in order
    tested        \* the points at the indices a, b, c, d of the seed draw, until insertTet

vars == << pc, input, points, determinant, drawn, convexHull, cg, it,
           iterations, inserted, discarded, deadArc, entry, inputDcel, updates, tested >>

nPoints == Len(points)

\* The caller enters convexHull(std::vector<Pointd>) with one of vectors, or
\* convexHull(const Dcel&) with one of meshes.
InitWith(vectors, meshes) ==
    /\ \/ entry = "points" /\ input \in vectors /\ inputDcel = EmptyDcel
          /\ pc = "shuffle"
       \/ entry = "mesh" /\ input = << >> /\ inputDcel \in meshes
          /\ pc = "extract"
    /\ points = input
    /\ determinant = 0
    /\ drawn = FALSE
    /\ convexHull = EmptyDcel
    /\ cg = EmptyGraph
    /\ it = 0
    /\ iterations = 0
    /\ inserted = << >>
    /\ discarded = << >>
    /\ deadArc = FALSE
    /\ updates = << >>
    /\ tested = << >>

Init == InitWith(Inputs, InputMeshes)

\* convexHull(const Dcel&): the coordinates of the vertices are pushed in
\* iteration order and passed, by value, to convexHull(std::vector<Pointd>).
ExtractPoints ==
    /\ pc = "extract"
    /\ points' = vertexCoordinatesOf(inputDcel)
    /\ input' = points'
    /\ pc' = "shuffle"
    /\ UNCHANGED << determinant, drawn, convexHull, cg, it, iterations, inserted,
                    discarded, deadArc, entry, inputDcel, updates, tested >>

\* std::random_shuffle(points.begin(), points.end()).
Shuffle ==
    /\ pc = "shuffle"
    /\ points' \in ShuffleOutcomes(points)
    /\ pc' = "seed"
    /\ UNCHANGED << input, determinant, drawn, convexHull, cg, it, iterations,
                    inserted, discarded, deadArc >>
    /\ UNCHANGED << entry, inputDcel, updates, tested >>

\* rand() % nPoints with nPoints = 0 is undefined: the division traps, or
\* it yields some index and the draw reads past the empty vector, after
\* which the loop retries or the process dies.
SeedEmpty ==
    /\ pc = "seed"
    /\ nPoints = 0
    /\ pc' \in { "seed", "ub" }
    /\ drawn' = TRUE
    /\ UNCHANGED << input, points, determinant, convexHull, cg, it, iterations,
                    inserted, discarded, deadArc >>
    /\ UNCHANGED << entry, inputDcel, updates, tested >>

\* One pass of the do-while body that draws a coplanar 4-tuple: retry.
SeedRetry ==
    /\ pc = "seed"
    /\ nPoints > 0
    /\ \E a, b, c, d \in 0..(nPoints - 1) :
         complanar(points[a + 1], points[b + 1], points[c + 1], points[d + 1]) = 0
    /\ determinant' = 0
    /\ drawn' = TRUE
    /\ UNCHANGED << pc, input, points, convexHull, cg, it, iterations,
                    inserted, discarded, deadArc >>
    /\ UNCHANGED << entry, inputDcel, updates, tested >>

\* The four swaps that follow the loop.
seedSwaps(ps, a, b, c, d) == Swap(Swap(Swap(Swap(ps, 0, a), 1, b), 2, c), 3, d)

\* The pass of the do-while body that draws a non-coplanar 4-tuple, and the
\* four swaps.  On a vector of fewer than four points points[3] lies outside
\* the vector and the swaps are undefined.
SeedFound ==
    /\ pc = "seed"
    /\ nPoints > 0
    /\ \E a, b, c, d \in 0..(nPoints - 1) :
         LET det == complanar(points[a + 1], points[b + 1], points[c + 1], points[d + 1])
         IN  /\ det # 0
             /\ determinant' = det
             /\ tested' = << points[a + 1], points[b + 1], points[c + 1], points[d + 1] >>
             /\ points' = IF nPoints >= 4 THEN seedSwaps(points, a, b, c, d) ELSE points
    /\ drawn' = TRUE
    /\ pc' = IF nPoints >= 4 THEN "tet" ELSE "ub"
    /\ UNCHANGED << input, convexHull, cg, it, iterations, inserted, discarded,
                    deadArc >>
    /\ UNCHANGED << entry, inputDcel, updates >>

\* Seed registration that registers no face.
addVNodesNone(g, fs) == g

RECURSIVE addVNodes(_, _)
addVNodes(g, fs) ==
    IF fs = {} THEN g
    ELSE LET f == CHOOSE x \in fs : TRUE IN addVNodes(addVNode(g, f), fs \ {f})

\* The winding choice, insertTet, and the V-node of each seed face.
BuildTet ==
    /\ pc = "tet"
    /\ convexHull' =
         IF determinant > 0
         THEN insertTet(convexHull, points[1], points[2], points[3], points[4])
         ELSE insertTet(convexHull, points[2], points[1], points[3], points[4])
    /\ cg' = addVNodes(cg, DOMAIN convexHull'.faces)
    /\ updates' = updates \o << "updateFaceNormals", "updateVertexNormals" >>
    /\ pc' = "conflict"
    /\ UNCHANGED << input, points, determinant, drawn, it, iterations, inserted,
                    discarded, deadArc >>
    /\ tested' = << >>
    /\ UNCHANGED << entry, inputDcel >>

\* The arcs of one point: the inner loop of conflict seeding over the faces.
RECURSIVE addArcsOf(_, _, _)
addArcsOf(g, p, fs) ==
    IF fs = {} THEN g
    ELSE LET f == CHOOSE x \in fs : TRUE
         IN  addArcsOf(addArc(g, p, f), p, fs \ {f})

\* Conflict seeding from ps[i] on (1-based; the code's index is i - 1).
RECURSIVE seedConflicts(_, _, _, _)
seedConflicts(g, m, ps, i) ==
    IF i > Len(ps) THEN g
    ELSE LET g1 == addUNode(g, ps[i])
             fs == { f \in DOMAIN m.faces : see(m, f, ps[i]) }
         IN  seedConflicts(addArcsOf(g1, ps[i], fs), m, ps, i + 1)

\* Off by one: the loop starting at the last seed point.
conflictSeedingFromSeed(g, m, ps) == seedConflicts(g, m, ps, 4)

\* Off by one the other way: the loop starting after the first remaining
\* point.
conflictSeedingSkipsFirst(g, m, ps) == seedConflicts(g, m, ps, 6)

\* for (unsigned int i = 4; i < points.size(); i++).
conflictSeeding(g, m, ps) == seedConflicts(g, m, ps, 5)

SeedConflicts ==
    /\ pc = "conflict"
    /\ cg' = conflictSeeding(cg, convexHull, points)
    /\ pc' = "while"
    /\ UNCHANGED << input, points, determinant, drawn, convexHull, it, iterations,
                    inserted, discarded, deadArc >>
    /\ UNCHANGED << entry, inputDcel, updates, tested >>

\* Position of the first live U-node at or after position i of nodesU.
RECURSIVE nextLive(_, _)
nextLive(g, i) ==
    IF i > Len(g.nodesU) THEN i
    ELSE IF g.nodesU[i] \in g.liveU THEN i
    ELSE nextLive(g, i + 1)

\* The loop leaving while a U-node is left.
whileConditionSkipsLast(g) == sizeU(g) > 1

\* The condition of the main loop.
whileCondition(g) == sizeU(g) > 0

\* while (cg.sizeU() > 0), entering a pass over uNodeIterator().
EnterPass ==
    /\ pc = "while"
    /\ whileCondition(cg)
    /\ it' = nextLive(cg, 1)
    /\ pc' = "for"
    /\ UNCHANGED << input, points, determinant, drawn, convexHull, cg, iterations,
                    inserted, discarded, deadArc >>
    /\ UNCHANGED << entry, inputDcel, updates, tested >>

\* while (cg.sizeU() > 0) failing.
ExitLoop ==
    /\ pc = "while"
    /\ ~whileCondition(cg)
    /\ pc' = "finalize"
    /\ UNCHANGED << input, points, determinant, drawn, convexHull, cg, it,
                    iterations, inserted, discarded, deadArc >>
    /\ UNCHANGED << entry, inputDcel, updates, tested >>

\* End of the range-for: iterations++.
EndPass ==
    /\ pc = "for"
    /\ it > Len(cg.nodesU)
    /\ iterations' = iterations + 1
    /\ pc' = "while"
    /\ UNCHANGED << input, points, determinant, drawn, convexHull, cg, it,
                    inserted, discarded, deadArc >>
    /\ UNCHANGED << entry, inputDcel, updates, tested >>

\* The point the range-for is at.
current == cg.nodesU[it]

atPoint == pc = "for" /\ it <= Len(cg.nodesU)

\* The else branch of the loop body: a point without arcs is dropped.
DiscardPoint ==
    /\ atPoint
    /\ sizeAdjacencesUNode(cg, current) = 0
    /\ cg' = deleteUNode(cg, current)
    /\ discarded' = Append(discarded, current)
    /\ it' = nextLive(cg', it + 1)
    /\ UNCHANGED << pc, input, points, determinant, drawn, convexHull, iterations,
                    inserted, deadArc >>
    /\ UNCHANGED << entry, inputDcel, updates, tested >>

\* A visible set that holds every face of the conflict graph.
visibleFacesAll(g, p) == g.liveV

\* The visible set the loop body reads from the conflict graph.
visibleFacesOf(g, p) == adjacentUNode(g, p)

\* The then branch of the loop body once the search loop of horizonEdgeList
\* has ended on face f: [status, m, g, deadArc].
insertFrom(m, g, p, f) ==
    LET visibleFaces == visibleFacesOf(g, p)
        h == horizonEdgeList(m, f, p)
    IN  IF h.status # "ok"
        THEN [ status |-> h.status, m |-> m, g |-> g, deadArc |-> FALSE ]
        ELSE
          LET P  == calculateP(g, m, h.horizon)
              g1 == deleteUNode(g, p)
              d  == deleteVisibleFaces(m, h.horizonVertex, visibleFaces, g1)
          IN  IF d.status # "ok"
              THEN [ status |-> d.status, m |-> m, g |-> g, deadArc |-> FALSE ]
              ELSE
                LET n == insertNewFaces(d.m, h.horizon, p, d.g, P)
                IN  IF n.status # "ok"
                    THEN [ status |-> n.status, m |-> m, g |-> g, deadArc |-> FALSE ]
                    ELSE [ status |-> "ok", m |-> n.m, g |-> n.g, deadArc |-> n.deadArc ]

\* Every way the then branch can end for point p: one per face the search
\* loop can end on; "aborted" when no visible face borders an unseen face
\* (the assertion of the search loop fails); "ub" when a deleted element is
\* read.
insertOutcomes(m, g, p) ==
    LET visibleFaces == visibleFacesOf(g, p)
        hits == searchHits(m, visibleFaces, p)
        stop(s) == [ status |-> s, m |-> m, g |-> g, deadArc |-> FALSE ]
    IN  { insertFrom(m, g, p, f) : f \in hits }
        \cup (IF searchDangles(m, visibleFaces, p) THEN { stop("ub") } ELSE {})
        \cup (IF hits = {} /\ ~searchDangles(m, visibleFaces, p)
              THEN { stop("aborted") } ELSE {})

\* The then branch of the loop body: a point with arcs is inserted.
InsertPoint ==
    /\ atPoint
    /\ sizeAdjacencesUNode(cg, current) > 0
    /\ \E r \in insertOutcomes(convexHull, cg, current) :
         /\ convexHull' = r.m
         /\ cg' = r.g
         /\ deadArc' = (deadArc \/ r.deadArc)
         /\ pc' = IF r.status = "ok" THEN "for" ELSE r.status
         /\ inserted' = IF r.status = "ok" THEN Append(inserted, current) ELSE inserted
         /\ it' = IF r.status = "ok" THEN nextLive(r.g, it + 1) ELSE it
    /\ UNCHANGED << input, points, determinant, drawn, iterations, discarded >>
    /\ UNCHANGED << entry, inputDcel, updates, tested >>

\* The calls that follow the loop.
postProcessing == << "updateFaceNormals", "updateVertexNormals", "updateBoundingBox" >>

\* updateFaceNormals, updateVertexNormals, updateBoundingBox and the return:
\* none of them changes the structure of the mesh.
Finalize ==
    /\ pc = "finalize"
    /\ updates' = updates \o postProcessing
    /\ pc' = "done"
    /\ UNCHANGED << input, points, determinant, drawn, convexHull, cg, it,
                    iterations, inserted, discarded, deadArc >>
    /\ UNCHANGED << entry, inputDcel, tested >>

Next ==
    \/ ExtractPoints
    \/ Shuffle
    \/ SeedEmpty
    \/ SeedRetry
    \/ SeedFound
    \/ BuildTet
    \/ SeedConflicts
    \/ EnterPass
    \/ ExitLoop
    \/ EndPass
    \/ DiscardPoint
    \/ InsertPoint
    \/ Finalize

Spec == Init /\ [][Next]_vars

InitLong == InitWith(LongInputs, LongInputMeshes)

SpecLong == InitLong /\ [][Next]_vars

-----------------------------------------------------------------------------
(* Vocabulary of the properties *)

Minus(p, q) == << p[1] - q[1], p[2] - q[2], p[3] - q[3] >>

\* Six times the signed volume of the tetrahedron (a, b, c, q), positive
\* when q lies on the inner side of the triangle a, b, c as the hull winds
\* its faces.
signedVolume(a, b, c, q) == 0 - Det3(Minus(b, a), Minus(c, a), Minus(q, a))

coplanar(a, b, c, q) == signedVolume(a, b, c, q) = 0

inputPoints == Range(input)

\* Every four entries of the vector are coplanar.
allCoplanar(ps) ==
    \A a, b, c, d \in DOMAIN ps : coplanar(ps[a], ps[b], ps[c], ps[d])

\* No four distinct entries of the vector are coplanar.
generalPosition(ps) ==
    \A a, b, c, d \in DOMAIN ps :
        Cardinality({a, b, c, d}) = 4 => ~coplanar(ps[a], ps[b], ps[c], ps[d])

numVertices  == Cardinality(DOMAIN convexHull.vertices)
numHalfEdges == Cardinality(DOMAIN convexHull.halfEdges)
numFaces     == Cardinality(DOMAIN convexHull.faces)

vertexCoordinates ==
    { convexHull.vertices[v].coordinate : v \in DOMAIN convexHull.vertices }

\* The coordinates of the corners of face f along its boundary cycle.
faceTriple(m, f) ==
    LET vs == IncidentVertices(m, f)
    IN  [ i \in 1..3 |-> m.vertices[vs[i]].coordinate ]

\* The mesh exists: the seed tetrahedron has been built.
built == pc \in { "conflict", "while", "for", "finalize", "done" }

\* convexHull has returned its mesh.
returned == pc = "done"

\* twin and next/prev links of every half-edge of m are consistent.
linksConsistent(m) ==
    \A h \in DOMAIN m.halfEdges :
        LET r == m.halfEdges[h] IN
        /\ r.twin \in DOMAIN m.halfEdges
        /\ m.halfEdges[r.twin].twin = h
        /\ m.halfEdges[r.twin].fromVertex = r.toVertex
        /\ m.halfEdges[r.twin].toVertex = r.fromVertex
        /\ r.next \in DOMAIN m.halfEdges
        /\ m.halfEdges[r.next].next \in DOMAIN m.halfEdges
        /\ m.halfEdges[m.halfEdges[r.next].next].next = h
        /\ m.halfEdges[r.next].prev = h
        /\ m.halfEdges[r.next].face = r.face
        /\ m.halfEdges[m.halfEdges[r.next].next].face = r.face

\* V - E + F = 2 with E half the number of half-edges, doubled.
euler(m) ==
    2 * Cardinality(DOMAIN m.vertices) - Cardinality(DOMAIN m.halfEdges)
      + 2 * Cardinality(DOMAIN m.faces) = 4

\* The oriented triples of input points every other input point lies
\* strictly inside of.
hullFacets(ps) ==
    { t \in ps \X ps \X ps :
        /\ Cardinality({ t[1], t[2], t[3] }) = 3
        /\ \A q \in ps \ { t[1], t[2], t[3] } : signedVolume(t[1], t[2], t[3], q) > 0 }

\* The faces of m as oriented triples, each in its three rotations.
meshFacets(m) ==
    UNION { LET t == faceTriple(m, f)
            IN  { << t[1], t[2], t[3] >>, << t[2], t[3], t[1] >>, << t[3], t[1], t[2] >> } :
            f \in DOMAIN m.faces }

\* The run has stopped without returning: the assertion of the horizon
\* search failed, the horizon walk cannot end, or a deleted element or an
\* index outside the vector was read.
stopped == pc \in { "aborted", "diverged", "ub" }

-----------------------------------------------------------------------------
(* Properties *)

\* C1: the mesh convexHull(points) returns is combinatorially consistent:
\* every half-edge h has twin(twin(h)) = h with twin(h) joining the same
\* two vertices in the opposite direction, next applied three times to h
\* gives h, prev(next(h)) = h, and the three half-edges of a cycle have the
\* same face.
C1_ReturnedMeshConsistent == returned => linksConsistent(convexHull)

\* C2: Euler's formula V - E + F = 2 holds for the seed tetrahedron, after
\* every completed point insertion and for the returned mesh.
C2_EulerFormula == built => euler(convexHull)

\* C3: convexity of the result: no input point is visible from a face of
\* the returned mesh.  Stated in its weakest reading, the one of the
\* spec's parenthesis: no input point lies strictly outside the plane of a
\* face (the determinant see tests is not negative); "see returns false"
\* asks for more, a strictly positive determinant.
C3_ResultConvex ==
    returned =>
        \A f \in DOMAIN convexHull.faces : \A p \in inputPoints :
            seeDeterminant(convexHull, f, p) >= 0

\* C4: for an input in general position the faces of the returned mesh are
\* exactly the convex-hull facets (the oriented triples every other input
\* point is strictly inside of) and its vertices are exactly the points of
\* those triples.
C4_ExactlyHullFacets ==
    returned /\ generalPosition(input) =>
        /\ meshFacets(convexHull) = hullFacets(inputPoints)
        /\ vertexCoordinates = UNION { Range(t) : t \in hullFacets(inputPoints) }

\* C5: four non-coplanar input points always give a tetrahedron: the run
\* does not stop short of returning, and what it returns has 4 faces, 4
\* vertices at the four input points and 12 consistently linked half-edges,
\* the insertion loop having processed no point.
C5_MinimalTetrahedron ==
    Len(input) = 4 /\ ~allCoplanar(input) =>
        /\ ~stopped
        /\ returned =>
             /\ numFaces = 4
             /\ numVertices = 4
             /\ numHalfEdges = 12
             /\ vertexCoordinates = inputPoints
             /\ linksConsistent(convexHull)
             /\ inserted = << >>
             /\ discarded = << >>
             /\ cg.nodesU = << >>
             /\ iterations = 0

\* C5 witness: a tetrahedron returned for a four-point input.
C5_Witness == returned /\ Len(input) = 4 /\ numFaces = 4 /\ ~allCoplanar(input)

\* C6: four non-coplanar points and a fifth strictly inside their
\* tetrahedron give 4 faces and 4 vertices, the four outer points.
C6_InteriorPointDropped ==
    returned /\ inputPoints = Range(TetraInterior) =>
        /\ numFaces = 4
        /\ numVertices = 4
        /\ vertexCoordinates = Range(Tetra)

\* C7: the eight corners of the unit cube give 12 faces, 8 vertices and 18
\* edges (36 half-edges).
C7_CubeCounts ==
    returned /\ inputPoints = Range(Cube) =>
        numFaces = 12 /\ numVertices = 8 /\ numHalfEdges = 36

\* C8: extremality: a point dropped for having no arcs is, when it is
\* dropped, strictly inside every face of the current hull, and is not
\* strictly outside any face of the returned hull.
C8_Extremality ==
    /\ atPoint /\ sizeAdjacencesUNode(cg, current) = 0 =>
         \A f \in DOMAIN convexHull.faces :
             seeDeterminant(convexHull, f, current) > 0
    /\ returned =>
         \A i \in DOMAIN discarded : \A f \in DOMAIN convexHull.faces :
             seeDeterminant(convexHull, f, discarded[i]) >= 0

\* C9: on an input holding four non-coplanar points the run reaches its
\* return.  Stated as what a finite run can refute: the run never stops
\* short of the return.
C9_NeverStopsShort == ~allCoplanar(input) => ~stopped

-----------------------------------------------------------------------------
(* Determinism *)

\* The three rotations of an oriented triple.
rotations(t) ==
    { << t[1], t[2], t[3] >>, << t[2], t[3], t[1] >>, << t[3], t[1], t[2] >> }

\* A face as an oriented triple of coordinates up to rotation; the empty
\* set for a face whose boundary cannot be read.
facetOf(m, f) ==
    IF FaceReadable(m, f) THEN rotations(faceTriple(m, f)) ELSE {}

\* The faces of m as coordinate triples, and which of them share an edge.
facets(m) == { facetOf(m, f) : f \in DOMAIN m.faces }

adjacency(m) ==
    { << IF LiveF(m, m.halfEdges[h].face)
         THEN facetOf(m, m.halfEdges[h].face) ELSE {},
         IF LiveH(m, m.halfEdges[h].twin)
            /\ LiveF(m, m.halfEdges[m.halfEdges[h].twin].face)
         THEN facetOf(m, m.halfEdges[m.halfEdges[h].twin].face) ELSE {} >> :
      h \in DOMAIN m.halfEdges }

combinatorics(m) == << facets(m), adjacency(m) >>

\* The arcs of g with each face named by its coordinates.
conflicts(m, g) ==
    { << a[1], IF LiveF(m, a[2]) THEN facetOf(m, a[2]) ELSE {} >> : a \in g.arcs }

\* Every visible face the horizon search of the pending insertion can end
\* on gives the same status, the same faces with the same adjacency, and
\* the same conflicts.
hullDetermined ==
    atPoint /\ sizeAdjacencesUNode(cg, current) > 0 =>
        Cardinality({ << r.status, combinatorics(r.m), conflicts(r.m, r.g), r.g.liveU >> :
                      r \in insertOutcomes(convexHull, cg, current) }) = 1

\* C11: determinism: with the shuffle and the seed draw fixed, the hull is
\* fixed.  The one choice of a run the random outcomes do not fix is the
\* visible face the horizon search ends on (std::set<Dcel::Face*> iterates
\* in address order), so two runs with the same random outcomes return the
\* same hull exactly when no insertion depends on that choice.
C11_Determinism == entry = "points" => hullDetermined

\* C12: convexHull(mesh) is convexHull(points) on the coordinates of the
\* vertices of the mesh in iteration order: the mesh is never changed; the
\* run continues from the entry state of convexHull(points) on that
\* vector; and, as for that vector, the random outcomes fix the hull it
\* returns.
C12_MeshEntryEquivalent ==
    /\ [][inputDcel' = inputDcel]_vars
    /\ [](entry = "mesh" /\ pc # "extract" =>
            /\ input = vertexCoordinatesOf(inputDcel)
            /\ pc = "shuffle" =>
                 /\ points = input
                 /\ convexHull = EmptyDcel
                 /\ cg = EmptyGraph
                 /\ determinant = 0
            /\ hullDetermined)

-----------------------------------------------------------------------------
(* Finalization *)

\* C13: no partial result: a mesh is returned only when no U-node remains;
\* updateFaceNormals, updateVertexNormals and updateBoundingBox have then
\* run once, in that order, after the two updates insertTet ends with, and
\* not before the loop has ended; the mesh is not changed by them or after
\* them.
C13_NoPartialResult ==
    /\ [](returned =>
            /\ sizeU(cg) = 0
            /\ updates = << "updateFaceNormals", "updateVertexNormals" >> \o
                         << "updateFaceNormals", "updateVertexNormals",
                            "updateBoundingBox" >>)
    /\ [](~returned =>
            updates \in { << >>, << "updateFaceNormals", "updateVertexNormals" >> })
    /\ [][(pc \in { "finalize", "done" }) => (convexHull' = convexHull)]_vars

\* C13 witness: a mesh returned after the loop has inserted a point.
C13_Witness == returned /\ Len(inserted) > 0 /\ Len(updates) = 5

-----------------------------------------------------------------------------
(* The conflict graph on its own: any sequence of its operations *)

GraphPoints == { Pt(0,0,0), Pt(1,1,1) }

GraphFaces == { 1, 2 }

InitGraph ==
    /\ pc = "graph"
    /\ entry = "graph"
    /\ cg = EmptyGraph
    /\ input = << >>
    /\ points = << >>
    /\ inputDcel = EmptyDcel
    /\ convexHull = EmptyDcel
    /\ determinant = 0
    /\ drawn = FALSE
    /\ it = 0
    /\ iterations = 0
    /\ inserted = << >>
    /\ discarded = << >>
    /\ deadArc = FALSE
    /\ updates = << >>
    /\ tested = << >>

graphFrame ==
    UNCHANGED << pc, input, points, determinant, drawn, convexHull, it, iterations,
                 inserted, discarded, deadArc, entry, inputDcel, updates,
                 tested >>

GraphAddUNode ==
    /\ pc = "graph"
    /\ Len(cg.nodesU) < MaxGraphNodes
    /\ \E p \in GraphPoints : cg' = addUNode(cg, p)
    /\ graphFrame

GraphAddVNode ==
    /\ pc = "graph"
    /\ \E f \in GraphFaces : cg' = addVNode(cg, f)
    /\ graphFrame

GraphAddArc ==
    /\ pc = "graph"
    /\ \E p \in GraphPoints, f \in GraphFaces : cg' = addArc(cg, p, f)
    /\ graphFrame

GraphDeleteUNode ==
    /\ pc = "graph"
    /\ \E p \in GraphPoints : cg' = deleteUNode(cg, p)
    /\ graphFrame

GraphDeleteVNode ==
    /\ pc = "graph"
    /\ \E f \in GraphFaces : cg' = deleteVNode(cg, f)
    /\ graphFrame

NextGraph ==
    \/ GraphAddUNode
    \/ GraphAddVNode
    \/ GraphAddArc
    \/ GraphDeleteUNode
    \/ GraphDeleteVNode

SpecGraph == InitGraph /\ [][NextGraph]_vars

-----------------------------------------------------------------------------
(* Seed *)

\* The arguments insertTet is called with, in order.
tetArguments ==
    IF determinant > 0
    THEN << points[1], points[2], points[3], points[4] >>
    ELSE << points[2], points[1], points[3], points[4] >>

\* C15: after the four swaps points[0], points[1], points[2], points[3]
\* are the points that were at the drawn indices a, b, c, d when the
\* non-zero determinant was computed.
C15_TestedPointsInFront ==
    pc = "tet" =>
        << points[1], points[2], points[3], points[4] >> = tested

\* C16: the seed tetrahedron is wound outward: the arguments of insertTet
\* have a strictly positive complanar determinant, and no seed vertex sees
\* a seed face it is not on.
C16_SeedWoundOutward ==
    pc = "conflict" =>
        /\ complanar(tetArguments[1], tetArguments[2], tetArguments[3],
                     tetArguments[4]) > 0
        /\ \A f \in DOMAIN convexHull.faces : \A v \in DOMAIN convexHull.vertices :
               v \notin Range(IncidentVertices(convexHull, f)) =>
                   ~see(convexHull, f, convexHull.vertices[v].coordinate)

-----------------------------------------------------------------------------
(* Conflicts *)

\* C17: conflict-graph accuracy: after conflict seeding and after every
\* completed insertion, for every live U-node p and every face f of the
\* mesh, the arc (p, f) exists exactly when see(f, p) is true; so the
\* visible set read from the graph for a point is the set of faces it sees.
C17_ConflictGraphAccurate ==
    pc \in { "while", "for" } =>
        \A p \in cg.liveU : \A f \in DOMAIN convexHull.faces :
            /\ FaceReadable(convexHull, f)
            /\ (<< p, f >> \in cg.arcs) <=> see(convexHull, f, p)

\* C18: every addArc call names a point whose U-node is live and a face
\* whose V-node is live: no arc is ever requested for a point whose U-node
\* has been deleted.
C18_NoArcForDeletedPoint == ~deadArc

\* C19: the candidate sets are sufficient: at every insertion, for every
\* horizon edge i, every live U-node that sees the new face built on edge
\* i is in P[i], the union of the points in conflict with the two faces
\* adjacent to that edge before the deletion.  New face number i is the
\* i-th face insertNewFaces allocates.
C19_CandidateSetsSufficient ==
    atPoint /\ sizeAdjacencesUNode(cg, current) > 0 =>
        \A f0 \in searchHits(convexHull, visibleFacesOf(cg, current), current) :
            LET h == horizonEdgeList(convexHull, f0, current) IN
            h.status = "ok" =>
                LET P  == calculateP(cg, convexHull, h.horizon)
                    g1 == deleteUNode(cg, current)
                    d  == deleteVisibleFaces(convexHull, h.horizonVertex,
                                             visibleFacesOf(cg, current), g1)
                IN  d.status = "ok" =>
                        LET n == insertNewFaces(d.m, h.horizon, current, d.g, P) IN
                        n.status = "ok" =>
                            \A i \in DOMAIN h.horizon : \A q \in g1.liveU :
                                see(n.m, d.m.nF + i, q) => q \in P[i]

-----------------------------------------------------------------------------
(* U-node lifecycle *)

\* The points the loop has processed, in order of processing.
processed == Range(inserted) \cup Range(discarded)

-----------------------------------------------------------------------------
(* V-node lifecycle *)

\* C21: V-node lifecycle: after seed registration and after every
\* completed insertion the live V-nodes are the faces of the mesh: every
\* face deleteVisibleFaces deleted has lost its V-node and every face
\* insertTet or insertNewFaces created has one.
C21_VNodesAreFaces ==
    built => cg.liveV = DOMAIN convexHull.faces

\* C21 witness: an insertion has deleted seed faces and created new ones.
C21_Witness ==
    /\ pc = "for"
    /\ Len(inserted) >= 1
    /\ cg.liveV # {}
    /\ \E f \in 1..4 : f \notin cg.liveV
    /\ \E f \in cg.liveV : f > 4

-----------------------------------------------------------------------------
(* Horizon of an insertion *)

\* The loop body is about to insert the point it is at.
inserting == atPoint /\ sizeAdjacencesUNode(cg, current) > 0

\* What horizonEdgeList can return for that point: one result per visible
\* face its search loop can end on.
horizons ==
    { horizonEdgeList(convexHull, f, current) :
      f \in searchHits(convexHull, visibleFacesOf(cg, current), current) }

\* e lies on a face outside vf and its twin on a face of vf.
isHorizonEdge(m, vf, e) ==
    /\ LiveH(m, e)
    /\ LiveH(m, m.halfEdges[e].twin)
    /\ m.halfEdges[e].face \notin vf
    /\ m.halfEdges[m.halfEdges[e].twin].face \in vf

horizonEdgesOf(m, vf) == { e \in DOMAIN m.halfEdges : isHorizonEdge(m, vf, e) }

\* C22: horizon correctness: the list horizonEdgeList returns holds,
\* exactly once each, the half-edges that lie on a face outside
\* visibleFaces with their twin on a face of visibleFaces, and horizonVertex
\* is the set of their endpoints.
C22_HorizonCorrect ==
    inserting =>
        \A h \in horizons : h.status = "ok" =>
            LET hs == horizonEdgesOf(convexHull, visibleFacesOf(cg, current))
            IN  /\ Range(h.horizon) = hs
                /\ Len(h.horizon) = Cardinality(hs)
                /\ h.horizonVertex =
                       { convexHull.halfEdges[e].fromVertex : e \in hs }
                       \cup { convexHull.halfEdges[e].toVertex : e \in hs }

\* C23: on an input in general position the search loop of
\* horizonEdgeList always finds a visible face with a half-edge whose twin
\* face the point does not see: the assertion never fails and the end of
\* visibleFaces is never dereferenced.
C23_HorizonSearchSucceeds ==
    generalPosition(input) =>
        /\ pc # "aborted"
        /\ inserting =>
             /\ searchHits(convexHull, visibleFacesOf(cg, current), current) # {}
             /\ ~searchDangles(convexHull, visibleFacesOf(cg, current), current)

\* C24: the horizon walk ends: for every point the loop inserts, from
\* whichever boundary half-edge the search found, the walk comes back to
\* that half-edge, reading live elements only.
C24_HorizonWalkEnds ==
    inserting => \A h \in horizons : h.status = "ok"

-----------------------------------------------------------------------------
(* The steps of one insertion *)

\* The then branch of the loop body once the search loop has ended on face
\* f, step by step: the visible set, the horizon h, the outcome d of
\* deleteVisibleFaces and the outcome n of insertNewFaces. A step that
\* follows a failed one is not taken.
stepsFrom(m, g, p, f) ==
    LET vf == visibleFacesOf(g, p)
        h  == horizonEdgeList(m, f, p)
        P  == IF h.status = "ok" THEN calculateP(g, m, h.horizon) ELSE << >>
        g1 == deleteUNode(g, p)
        d  == IF h.status = "ok"
              THEN deleteVisibleFaces(m, h.horizonVertex, vf, g1)
              ELSE [ status |-> h.status, m |-> m, g |-> g1, garbage |-> {} ]
        n  == IF d.status = "ok"
              THEN insertNewFaces(d.m, h.horizon, p, d.g, P)
              ELSE [ status |-> d.status, m |-> d.m, g |-> d.g, e2 |-> NULL,
                     old_e3 |-> NULL, deadArc |-> FALSE ]
    IN  [ visibleFaces |-> vf, h |-> h, d |-> d, n |-> n ]

\* The insertions the loop body can make of the point it is at.
insertions ==
    { stepsFrom(convexHull, cg, current, f) :
      f \in searchHits(convexHull, visibleFacesOf(cg, current), current) }

\* The from-vertex of entry i of hz is the to-vertex of entry i+1, cyclically.
cyclicChain(m, hz) ==
    \A i \in 1..Len(hz) :
        m.halfEdges[hz[i]].fromVertex = m.halfEdges[hz[(i % Len(hz)) + 1]].toVertex

\* a and b are live twins of each other between the same two vertices in
\* opposite directions.
opposite(m, a, b) ==
    /\ LiveH(m, a) /\ LiveH(m, b)
    /\ m.halfEdges[a].twin = b /\ m.halfEdges[b].twin = a
    /\ m.halfEdges[a].fromVertex = m.halfEdges[b].toVertex
    /\ m.halfEdges[a].toVertex = m.halfEdges[b].fromVertex

\* C25: new-face stitching closes the fan: the horizon list is a cyclic
\* chain, insertNewFaces creates one face per horizon edge on the endpoints
\* of that edge and p, and every new half-edge has a twin running the other
\* way between the same vertices, the pairs (horizon edge i, e1 of face i)
\* and (e2 of the last face, e3 of the first) included.
C25_FanClosed ==
    inserting => \A s \in insertions : s.n.status = "ok" =>
        LET hz   == s.h.horizon
            m    == s.n.m
            k    == Len(hz)
            base == s.d.m.nH
            v3   == s.d.m.nV + 1
        IN  /\ cyclicChain(convexHull, hz)
            /\ m.nF - s.d.m.nF = k
            /\ m.nH - base = 3 * k
            /\ \A e \in (base + 1)..m.nH : opposite(m, e, m.halfEdges[e].twin)
            /\ \A i \in 1..k :
                 /\ m.halfEdges[base + 3 * (i - 1) + 1].twin = hz[i]
                 /\ m.faces[s.d.m.nF + i].outerHalfEdge = base + 3 * (i - 1) + 1
                 /\ { m.halfEdges[e].fromVertex :
                      e \in (base + 3 * (i - 1) + 1)..(base + 3 * i) }
                      = { convexHull.halfEdges[hz[i]].fromVertex,
                          convexHull.halfEdges[hz[i]].toVertex, v3 }
            /\ m.halfEdges[base + 3 * (k - 1) + 2].twin = base + 3
            /\ m.vertices[v3].coordinate = current

\* C25 witness: a fan of at least four faces is about to be stitched
\* around the point.
C25_Witness ==
    inserting /\ \E s \in insertions : s.n.status = "ok" /\ Len(s.h.horizon) >= 4

\* The vertices of the faces vf of m.
incidentToVisible(m, vf) ==
    { m.halfEdges[e].fromVertex :
      e \in { x \in DOMAIN m.halfEdges : m.halfEdges[x].face \in vf } }

\* C26: vertex pruning: deleteVisibleFaces deletes the visible faces and
\* then exactly the vertices of visible faces that are not in
\* horizonVertices, each once; no horizon vertex is deleted and no
\* remaining half-edge starts or ends at a deleted vertex.
C26_VertexPruning ==
    inserting => \A s \in insertions : s.h.status = "ok" =>
        /\ s.d.status = "ok"
        /\ LET m   == s.d.m
               del == DOMAIN convexHull.vertices \ DOMAIN m.vertices
           IN  /\ del = incidentToVisible(convexHull, s.visibleFaces) \ s.h.horizonVertex
               /\ s.d.garbage = del
               /\ s.h.horizonVertex \subseteq DOMAIN m.vertices
               /\ DOMAIN m.faces = DOMAIN convexHull.faces \ s.visibleFaces
               /\ \A e \in DOMAIN m.halfEdges :
                    /\ m.halfEdges[e].fromVertex \in DOMAIN m.vertices
                    /\ m.halfEdges[e].toVertex \in DOMAIN m.vertices

\* C27: no stale references: once horizonEdgeList has returned, the
\* half-edges of horizonEdges and the vertices of horizonVertex survive
\* deleteVisibleFaces, insertNewFaces reads live elements only, and no face
\* deleted in the step is a V-node afterwards.
C27_NoStaleReferences ==
    inserting => \A s \in insertions : s.h.status = "ok" =>
        /\ s.d.status = "ok"
        /\ Range(s.h.horizon) \subseteq DOMAIN s.d.m.halfEdges
        /\ s.h.horizonVertex \subseteq DOMAIN s.d.m.vertices
        /\ \A e \in Range(s.h.horizon) :
             /\ s.d.m.halfEdges[e].fromVertex \in DOMAIN s.d.m.vertices
             /\ s.d.m.halfEdges[e].toVertex \in DOMAIN s.d.m.vertices
        /\ s.n.status = "ok"
        /\ s.n.g.liveV \cap s.visibleFaces = {}

\* C27 witness: an insertion that deletes a vertex along with its faces.
C27_Witness ==
    inserting /\ \E s \in insertions : s.n.status = "ok" /\ s.d.garbage # {}

-----------------------------------------------------------------------------
(* Anchors *)

\* Every vertex of m is anchored on a live half-edge that leaves it and
\* every face on a live half-edge of its own.
anchors(m) ==
    /\ \A v \in DOMAIN m.vertices :
         /\ LiveH(m, m.vertices[v].incidentHalfEdge)
         /\ m.halfEdges[m.vertices[v].incidentHalfEdge].fromVertex = v
    /\ \A f \in DOMAIN m.faces :
         /\ LiveH(m, m.faces[f].outerHalfEdge)
         /\ m.halfEdges[m.faces[f].outerHalfEdge].face = f

\* C30: vertex and face anchors stay valid: after insertTet and after
\* every completed insertion each live vertex's incident half-edge is a live
\* half-edge leaving that vertex and each live face's outer half-edge is a
\* live half-edge of that face.
C30_AnchorsValid ==
    built => anchors(convexHull)

\* C30 witness: after an insertion a seed vertex is anchored on a half-edge
\* of a new face.
C30_Witness ==
    /\ pc = "for"
    /\ Len(inserted) >= 1
    /\ \E v \in DOMAIN convexHull.vertices :
         v <= 4 /\ convexHull.vertices[v].incidentHalfEdge > 12

-----------------------------------------------------------------------------
(* Frame of an insertion *)

\* The faces of m that p does not see.
unseenFaces(m, p) == { f \in DOMAIN m.faces : ~see(m, f, p) }

\* Half-edge records a and b agree on everything but the twin.
sameLinks(a, b) ==
    /\ a.next = b.next /\ a.prev = b.prev /\ a.face = b.face
    /\ a.fromVertex = b.fromVertex /\ a.toVertex = b.toVertex

\* Face f of m0 and its half-edges are in m1 with the same links.
faceKept(m0, m1, f) ==
    /\ f \in DOMAIN m1.faces
    /\ m1.faces[f] = m0.faces[f]
    /\ \A e \in { x \in DOMAIN m0.halfEdges : m0.halfEdges[x].face = f } :
         /\ e \in DOMAIN m1.halfEdges
         /\ sameLinks(m0.halfEdges[e], m1.halfEdges[e])

\* The elements of m0 that are still in m1 differ at most in the twin of
\* the half-edges of hz and the incident half-edge of the vertices of hv.
survivorsFramed(m0, m1, hz, hv) ==
    /\ \A e \in DOMAIN m0.halfEdges \cap DOMAIN m1.halfEdges :
         /\ sameLinks(m0.halfEdges[e], m1.halfEdges[e])
         /\ e \notin Range(hz) => m1.halfEdges[e].twin = m0.halfEdges[e].twin
    /\ \A v \in DOMAIN m0.vertices \cap DOMAIN m1.vertices :
         /\ m1.vertices[v].coordinate = m0.vertices[v].coordinate
         /\ v \notin hv => m1.vertices[v] = m0.vertices[v]
    /\ \A f \in DOMAIN m0.faces \cap DOMAIN m1.faces : m1.faces[f] = m0.faces[f]

insertionFramed ==
    inserting => \A s \in insertions : s.h.status = "ok" =>
        /\ s.d.status = "ok" =>
             \A f \in unseenFaces(convexHull, current) : faceKept(convexHull, s.d.m, f)
        /\ s.n.status = "ok" =>
             /\ \A f \in unseenFaces(convexHull, current) : faceKept(convexHull, s.n.m, f)
             /\ survivorsFramed(convexHull, s.n.m, s.h.horizon, s.h.horizonVertex)

\* C29: frame of a point insertion: every face the point does not see
\* stays, with its three half-edges and their next, prev, face, from-vertex
\* and to-vertex; of the surviving elements only the twin of horizon
\* half-edges and the incident half-edge of horizon vertices change; and
\* discarding a point without arcs leaves the mesh as it is.
C29_InsertionFrame ==
    /\ []insertionFramed
    /\ [][(atPoint /\ sizeAdjacencesUNode(cg, current) = 0)
            => (convexHull' = convexHull)]_vars

\* C29 witness: after a point was discarded another is inserted that leaves
\* some faces in place.
C29_Witness ==
    /\ inserting
    /\ Len(discarded) >= 1
    /\ \E s \in insertions : s.n.status = "ok" /\ unseenFaces(convexHull, current) # {}

-----------------------------------------------------------------------------
(* The orientation predicate and the visibility test on their own *)

\* The points the predicates are applied to: the corners of the unit cube,
\* which hold coplanar and non-coplanar quadruples of both orientations.
PredicatePoints == Range(Cube)

\* points holds the four arguments of complanar and the point tested by see.
InitPredicate ==
    /\ pc = "predicate"
    /\ entry = "predicate"
    /\ points \in [ 1..5 -> PredicatePoints ]
    /\ input = << >>
    /\ cg = EmptyGraph
    /\ inputDcel = EmptyDcel
    /\ convexHull = EmptyDcel
    /\ determinant = 0
    /\ drawn = FALSE
    /\ it = 0
    /\ iterations = 0
    /\ inserted = << >>
    /\ discarded = << >>
    /\ deadArc = FALSE
    /\ updates = << >>
    /\ tested = << >>

predicateFrame ==
    UNCHANGED << input, points, cg, iterations, inserted, discarded, deadArc,
                 entry, inputDcel, updates, tested >>

\* complanar is applied to the four points.
PredicateComplanar ==
    /\ pc = "predicate"
    /\ determinant' = complanar(points[1], points[2], points[3], points[4])
    /\ pc' = "predicate:complanar"
    /\ UNCHANGED << convexHull, drawn, it >>
    /\ predicateFrame

\* insertTet builds the four faces on points that are not coplanar.
PredicateInsertTet ==
    /\ pc = "predicate:complanar"
    /\ determinant # 0
    /\ convexHull' = insertTet(EmptyDcel, points[1], points[2], points[3], points[4])
    /\ pc' = "predicate:faces"
    /\ UNCHANGED << determinant, drawn, it >>
    /\ predicateFrame

\* see is applied to a face and the fifth point.
PredicateSee ==
    /\ pc = "predicate:faces"
    /\ \E f \in DOMAIN convexHull.faces :
         /\ it' = f
         /\ drawn' = see(convexHull, f, points[5])
    /\ pc' = "predicate:see"
    /\ UNCHANGED << convexHull, determinant >>
    /\ predicateFrame

NextPredicate ==
    \/ PredicateComplanar
    \/ PredicateInsertTet
    \/ PredicateSee

SpecPredicate == InitPredicate /\ [][NextPredicate]_vars

\* Exchanging arguments i and j (0-based) of complanar changes the sign of
\* its value on the points of s.
exchangeNegates(s, i, j) ==
    LET t == Swap(s, i, j)
    IN  complanar(t[1], t[2], t[3], t[4]) = 0 - complanar(s[1], s[2], s[3], s[4])

\* C28: orientation predicate and visibility test: complanar is zero
\* exactly when its four points are coplanar, changes sign when two
\* arguments are exchanged and is unchanged by a rotation of the first
\* three; see(f, p) is true exactly when complanar of the first three
\* incident vertices of f and p is not above epsilon, so a point coplanar
\* with f, a vertex of f included, sees f.
C28_OrientationAndVisibility ==
    /\ pc \in { "predicate:complanar", "predicate:faces" } =>
         /\ determinant = complanar(points[1], points[2], points[3], points[4])
         /\ (determinant = 0) = coplanar(points[1], points[2], points[3], points[4])
         /\ \A i, j \in 0..3 : i < j => exchangeNegates(SubSeq(points, 1, 4), i, j)
         /\ complanar(points[2], points[3], points[1], points[4]) = determinant
         /\ complanar(points[3], points[1], points[2], points[4]) = determinant
    /\ pc = "predicate:see" =>
         LET t == faceTriple(convexHull, it)
             q == points[5]
         IN  /\ drawn = (complanar(t[1], t[2], t[3], q) <= 0)
             /\ coplanar(t[1], t[2], t[3], q) => drawn
             /\ q \in Range(t) => drawn

\* C28 witness: a vertex of the face was tested and reported as seeing it.
C28_Witness ==
    /\ pc = "predicate:see"
    /\ points[5] \in Range(faceTriple(convexHull, it))
    /\ drawn

====
